---- MODULE Spec2Model ----
(***************************************************************************)
(* TVOC meter firmware (ESP8266, CCS811 + BME280, MQTT).                   *)
(* Model of setup(), mqtt_send() and loop() of the variant with the        *)
(* status topic and the WiFi watchdog (src/unnamed/part_001).              *)
(*                                                                         *)
(* One loop() iteration is the chain of steps                              *)
(*   poll -> clock -> baseline                                             *)
(*   -> env (-> env_read -> env_comp -> env_temp -> env_hum)               *)
(*   -> log (-> log_eco2) -> mqttloop -> watchdog                          *)
(* driven by pc, each step translated from the lines it names.  The only   *)
(* step that does not belong to the firmware is WifiLost, the environment  *)
(* dropping the network association between two steps.                     *)
(*                                                                         *)
(* Spec starts at power-on, SpecWrap shortly before millis() wraps and     *)
(* SpecLive follows a loop() that is called again and again.               *)
(*                                                                         *)
(* SpecLed is setup(), mqtt_send() and loop() of the two builds with the   *)
(* LED bar (src/tvocmeter.ino, src/unnamed/part_000): the same chain of    *)
(* steps without the watchdog, a poll that also draws the bar, a           *)
(* mqtt_send without status topic and will, and payloads without unit.     *)
(* The steps whose code is the same in the three files are shared.         *)
(***************************************************************************)
EXTENDS Integers, Sequences, FiniteSets, TLC

\* ------------------------------------------------------------ constants
NVDATA_MAGIC == 4919
BASELINE_PERIOD_SEC == 3600
ENV_PERIOD_SEC == 10
LOG_PERIOD_SEC == 10
\* 2^16: the range of uint16_t, and the limb of 32-bit arithmetic
U16 == 65536
\* millis() / 1000
MsPerSec == 1000

\* ------------------------------------------------------------ bounds
\* samples accumulated between two drains
MaxSamples == 3
\* clock reads at which the clock has advanced
MaxTicks == 2

\* ------------------------------------------------------------ inputs
\* (tvoc, eco2) pairs delivered by readAlgorithmResults
Samples == {<<100, 400>>, <<101, 401>>, <<102, 65535>>}
\* values of the sensor's baseline register
BaselineValues == {4660, 43981}
\* the record found in flash at power-on: its baseline, and its magic when
\* it is not NVDATA_MAGIC
StaleBaseline == 4660
StaleMagic == {0}
\* temperature and humidity in hundredths
TempValues == {2150}
HumValues == {4500}
\* milliseconds passed between two reads of millis()
Deltas == {0, 10000, 11000, 3601000}

esp_id == "c0ffee"
statustopic == "status"

VARIABLES
    pc,               \* position in setup()/loop()
    millis,           \* millis() as two 16-bit limbs <<hi, lo>>
    uptime,           \* true time since boot [sec, ms], never wrapping
    ticks,            \* clock advances of this boot (bounded by MaxTicks)
    second,           \* loop(): unsigned long second
    second_log,       \* loop(): static unsigned long second_log
    second_baseline,  \* loop(): static unsigned long second_baseline
    second_env,       \* loop(): static unsigned long second_env
    fired,            \* true uptime second of the last firing, per task
    tvoc_avg,         \* averager_t [total, count]
    eco2_avg,         \* averager_t [total, count]
    samples,          \* the samples accumulated since the last drain, ascending
    nvdata,           \* struct nvdata in RAM [baseline, magic]
    eeprom,           \* the committed flash record [baseline, magic]
    ccs_baseline,     \* the CCS811's baseline register
    restored,         \* arguments of the setBaseline calls of this boot
    wak,              \* level of PIN_CCS811_WAK (0: the sensor is awake)
    ambient,          \* loop(): float tempC, humidity as read from the BME280
    ccs_env,          \* the CCS811's compensation registers
    iter,             \* what this loop() iteration has done so far, in order
    wifi,             \* WiFi.status() == WL_CONNECTED
    connected,        \* mqttClient.connected()
    broker,           \* broker side: retained status and registered will
    sent,             \* the mqtt_send call made by the last step, if any
    done,             \* what this boot has done so far
    levels,           \* builds with the LED bar: static const level_t levels[]
    leds,             \* ... static CRGB leds[NUM_LEDS]
    strip,            \* ... the pixels as latched by the last FastLED.show()
    brightness,       \* ... FastLED's global brightness
    ledlog            \* ... the last show_on_led call

vars == <<pc, millis, uptime, ticks, second, second_log, second_baseline,
          second_env, fired, tvoc_avg, eco2_avg, samples, nvdata, eeprom,
          ccs_baseline, restored, wak, ambient, ccs_env, iter, wifi, connected,
          broker, sent, done, levels, leds, strip, brightness, ledlog>>

\* the LED bar
ledvars == <<levels, leds, strip, brightness, ledlog>>

\* everything else
metervars == <<pc, millis, uptime, ticks, second, second_log, second_baseline,
               second_env, fired, tvoc_avg, eco2_avg, samples, nvdata, eeprom,
               ccs_baseline, restored, wak, ambient, ccs_env, iter, wifi,
               connected, broker, sent, done>>

\* ------------------------------------------------------------ arithmetic
\* (a - b) mod 2^32 of two unsigned long below 2^31, as limbs <<hi, lo>>
Sub32(a, b) ==
    IF a >= b
    THEN <<(a - b) \div U16, (a - b) % U16>>
    ELSE LET d == b - a
             borrow == IF d % U16 = 0 THEN 0 ELSE 1
         IN <<U16 - (d \div U16) - borrow, (U16 - (d % U16)) % U16>>

\* limbs x > p, p a small constant
GT32(x, p) == x[1] > p \div U16 \/ (x[1] = p \div U16 /\ x[2] > p % U16)

\* (a check that fires as soon as the period is reached)
ElapsedAtPeriod(now, last, period) == GT32(Sub32(now, last), period - 1)

\* (now - last) > period in unsigned long arithmetic
Elapsed(now, last, period) == GT32(Sub32(now, last), period)

\* millis() after d more milliseconds: a 32-bit counter
MillisAdd(m, d) ==
    LET lo == m[2] + (d % U16)
        hi == m[1] + (d \div U16) + (lo \div U16)
    IN <<hi % U16, lo % U16>>

\* millis() / 1000 by long division over the limbs
Seconds(m) ==
    LET q == m[1] \div MsPerSec
        r == m[1] % MsPerSec
    IN (q * U16) + (((r * U16) + m[2]) \div MsPerSec)

\* the true uptime after d more milliseconds
UptimeAdd(u, d) ==
    [sec |-> u.sec + ((u.ms + d) \div MsPerSec), ms |-> (u.ms + d) % MsPerSec]

\* (a mean that rounds down)
AverageTrunc(avg) == (avg.total \div avg.count) % U16

\* uint16_t v = (avg.total + (avg.count / 2)) / avg.count
Average(avg) == ((avg.total + (avg.count \div 2)) \div avg.count) % U16

\* avg.total += v; avg.count++
Accumulate(avg, v) ==
    [total |-> avg.total + v, count |-> (avg.count + 1) % U16]

EmptyAvg == [total |-> 0, count |-> 0]

\* the record of the samples taken: s put before the first larger one
Insert(seq, s) ==
    LET before == {i \in 1..Len(seq) : seq[i][1] <= s[1]}
        k == Cardinality(before)
    IN SubSeq(seq, 1, k) \o <<s>> \o SubSeq(seq, k + 1, Len(seq))

\* ------------------------------------------------------------ messages
\* snprintf(message, sizeof(message), fmt, arg)
Format(fmt, arg) == [fmt |-> fmt, arg |-> arg]
Literal(s) == [fmt |-> s, arg |-> 0]

NoWill == [topic |-> "", payload |-> Literal(""), retained |-> FALSE]

\* answers of the PubSubClient calls inside one mqtt_send
\* (the answer of a call that is not made is FALSE):
\*   entryUp    a connection that was up is still up at connected() on entry
\*   connectOk  connect(...)
\*   onlineOk   publish(statustopic, "online", ...)
\*   stillUp    the connection is up at the second connected()
\*   pubOk      publish(topic, value, ...)
\*   closed     that publish found the connection closed: it fails, and
\*              connected() is false afterwards
SendInputs ==
    {in \in [entryUp : BOOLEAN, connectOk : BOOLEAN, onlineOk : BOOLEAN,
             stillUp : BOOLEAN, pubOk : BOOLEAN, closed : BOOLEAN] :
        /\ in.onlineOk => in.connectOk
        /\ in.pubOk => in.stillUp
        /\ in.closed => (in.stillUp /\ ~in.pubOk)}

\* the broker publishes the will of a session that ended unexpectedly
BrokerLost(b) ==
    IF b.will = NoWill THEN b
    ELSE [status |-> IF b.will.retained THEN b.will.payload.fmt ELSE b.status,
          will |-> NoWill]

\* PubSubClient::connect(id, willTopic, willQos, willRetain, willMessage) -> ok
ConnectCall(id, topic, retain, message, ok) ==
    [op |-> "connect", id |-> id, topic |-> topic,
     payload |-> Literal(message), retained |-> retain, ok |-> ok]

\* PubSubClient::publish(topic, payload, retained) -> ok
PublishCall(topic, payload, retained, ok) ==
    [op |-> "publish", id |-> "", topic |-> topic,
     payload |-> payload, retained |-> retained, ok |-> ok]

\* the broker after a connect that succeeded with this will, and after the
\* status publish it accepted or not
BrokerConnected(b, willTopic, willMessage, retained, onlineOk) ==
    [status |-> IF onlineOk /\ retained THEN "online" ELSE b.status,
     will |-> [topic |-> willTopic, payload |-> Literal(willMessage),
               retained |-> retained]]

\* (a connect that publishes "online" whether or not it succeeded)
SendConnectOnlineAlways(c, retained, in, assoc) ==
    LET conOk == in.connectOk /\ assoc
        con == ConnectCall(esp_id, statustopic, retained, "offline", conOk)
        online == PublishCall(statustopic, Literal("online"), retained, in.onlineOk)
    IN [connected |-> conOk,
        broker |-> IF conOk
                   THEN BrokerConnected(c.broker, statustopic, "offline",
                                        retained, in.onlineOk)
                   ELSE c.broker,
        calls |-> <<con, online>>,
        result |-> in.onlineOk]

\* (a connect that registers no will: mqttClient.connect(esp_id))
SendConnectNoWill(c, retained, in, assoc) ==
    LET conOk == in.connectOk /\ assoc
        con == ConnectCall(esp_id, "", FALSE, "", conOk)
        online == PublishCall(statustopic, Literal("online"), retained, in.onlineOk)
    IN IF conOk
       THEN [connected |-> TRUE,
             broker |-> [status |-> IF in.onlineOk /\ retained
                                    THEN "online" ELSE c.broker.status,
                         will |-> NoWill],
             calls |-> <<con, online>>,
             result |-> in.onlineOk]
       ELSE [connected |-> FALSE, broker |-> c.broker,
             calls |-> <<con>>, result |-> FALSE]

\* mqtt_send, the part under if (!mqttClient.connected()):
\*   result = mqttClient.connect(esp_id, statustopic, 0, retained, "offline");
\*   if (result) result = mqttClient.publish(statustopic, "online", retained);
\* A connect needs the network association (assoc) to succeed.
SendConnect(c, retained, in, assoc) ==
    LET conOk == in.connectOk /\ assoc
        con == ConnectCall(esp_id, statustopic, retained, "offline", conOk)
        online == PublishCall(statustopic, Literal("online"), retained, in.onlineOk)
    IN IF conOk
       THEN [connected |-> TRUE,
             broker |-> BrokerConnected(c.broker, statustopic, "offline",
                                        retained, in.onlineOk),
             calls |-> <<con, online>>,
             result |-> in.onlineOk]
       ELSE [connected |-> FALSE, broker |-> c.broker,
             calls |-> <<con>>, result |-> FALSE]

\* static bool mqtt_send(const char *topic, const char *value, bool retained)
\* c = [connected, broker, sent], connected being what the client was left
\* as by the last call; in = the answers of the client calls.
\* The call is appended to c.sent as
\*   [topic, value, entry (connected() on entry), assoc, up (connected() at
\*    the telemetry publish), calls (the client calls made, in order, each
\*    with its answer), result]
mqtt_send(c, topic, value, retained, in, assoc) ==
    LET \* mqttClient.connected() on entry: a connection that was up may have
        \* been closed since, and then the broker has published the will
        entry == c.connected /\ in.entryUp
        c0 == [c EXCEPT !.connected = entry,
                        !.broker = IF c.connected /\ ~entry
                                   THEN BrokerLost(c.broker) ELSE c.broker]
        \* bool result = false; if (!mqttClient.connected()) { ... }
        k == IF ~entry
             THEN SendConnect(c0, retained, in, assoc)
             ELSE [connected |-> TRUE, broker |-> c0.broker,
                   calls |-> <<>>, result |-> FALSE]
        \* if (mqttClient.connected()) result = mqttClient.publish(topic, value, retained)
        up == k.connected /\ in.stillUp
        \* mqttClient.connected() after the call
        after == up /\ ~in.closed
    IN [connected |-> after,
        broker |-> IF after THEN k.broker ELSE BrokerLost(k.broker),
        sent |-> Append(c.sent,
                    [topic |-> topic, value |-> value, entry |-> entry,
                     assoc |-> assoc, up |-> up,
                     calls |-> IF up
                               THEN Append(k.calls,
                                           PublishCall(topic, value, retained, in.pubOk))
                               ELSE k.calls,
                     result |-> IF up THEN in.pubOk ELSE k.result])]

Client == [connected |-> connected, broker |-> broker, sent |-> sent]

\* a step starts with no call made
NoCalls(c) == [c EXCEPT !.sent = <<>>]

SetClient(c) ==
    /\ connected' = c.connected
    /\ broker' = c.broker
    /\ sent' = c.sent

\* ------------------------------------------------------------ LED bar
NUM_LEDS == 8
U8 == 256

\* CRGB(uint32_t colorcode): 0xRRGGBB split into the three channels
CRGB(colorcode) ==
    [r |-> (colorcode \div (U8 * U8)) % U8,
     g |-> (colorcode \div U8) % U8,
     b |-> colorcode % U8]

\* FastLED's HTML colour codes
Black == 0
Green == 32768
Yellow == 16776960
Red == 16711680

\* levels[] of src/tvocmeter.ino: {level, color}, ended by {-1, 0}
LevelsTvocmeter ==
    <<[level |-> 25, color |-> 65280], [level |-> 50, color |-> 65280],
      [level |-> 100, color |-> 65280], [level |-> 200, color |-> 65280],
      [level |-> 400, color |-> 16776960], [level |-> 800, color |-> 16776960],
      [level |-> 1600, color |-> 16711680], [level |-> 3200, color |-> 16711680],
      [level |-> -1, color |-> 0]>>

\* levels[] of src/unnamed/part_000: {level, rgb}, ended by {-1, 0}
LevelsPart000 ==
    <<[level |-> 62, color |-> Green], [level |-> 125, color |-> Green],
      [level |-> 250, color |-> Green], [level |-> 500, color |-> Green],
      [level |-> 1000, color |-> Yellow], [level |-> 2000, color |-> Yellow],
      [level |-> 4000, color |-> Red], [level |-> 8000, color |-> Red],
      [level |-> -1, color |-> 0]>>

\* (a band that lights only above its threshold)
LedStepStrict(table, l, tvoc, idx) ==
    [l EXCEPT ![idx] = IF tvoc > table[idx].level
                       THEN CRGB(table[idx].color)
                       ELSE CRGB(Black)]

\* (a band that is lit but never turned off)
LedStepNoClear(table, l, tvoc, idx) ==
    [l EXCEPT ![idx] = IF tvoc >= table[idx].level
                       THEN CRGB(table[idx].color)
                       ELSE l[idx]]

\* the body of the for loop of show_on_led, for slot idx (counted from 1):
\*   if (tvoc >= l->level) leds[idx] = CRGB(l->color); else leds[idx] = CRGB::Black
LedStep(table, l, tvoc, idx) ==
    [l EXCEPT ![idx] = IF tvoc >= table[idx].level
                       THEN CRGB(table[idx].color)
                       ELSE CRGB(Black)]

RECURSIVE ShowLoop(_, _, _, _)
\* for (idx = 0; levels[idx].level > 0; idx++) { ... }
\* st = [leds, ops]: the array, and the slots written so far
ShowLoop(table, st, tvoc, idx) ==
    IF table[idx].level > 0
    THEN ShowLoop(table,
                  [leds |-> LedStep(table, st.leds, tvoc, idx),
                   ops |-> Append(st.ops, [op |-> "set", idx |-> idx])],
                  tvoc, idx + 1)
    ELSE st

\* FastLED's brightness unless setBrightness is called: full
FullBrightness == U8 - 1
\* FastLED.setBrightness(5) of src/unnamed/part_000
DimBrightness == 5

\* FastLED scales a channel by the brightness: (v * (1 + scale)) >> 8
Scale8(v, scale) == (v * (1 + scale)) \div U8

\* FastLED.show(): the strip latches the array, scaled by the brightness
Show(l, bright) ==
    [i \in DOMAIN l |-> [r |-> Scale8(l[i].r, bright),
                         g |-> Scale8(l[i].g, bright),
                         b |-> Scale8(l[i].b, bright)]]

\* static void show_on_led(uint16_t tvoc): the loop, then FastLED.show()
show_on_led(table, l, tvoc, bright) ==
    LET st == ShowLoop(table, [leds |-> l, ops |-> <<>>], tvoc, 1)
    IN [leds |-> st.leds,
        strip |-> Show(st.leds, bright),
        ops |-> Append(st.ops, [op |-> "show", idx |-> 0])]

\* leds[] as the static storage starts: all black
AllBlack == [i \in 1..NUM_LEDS |-> CRGB(Black)]

\* ledlog: the argument of the call and the writes it made
NoRender == [tvoc |-> 0, ops |-> <<>>]

\* a build without the LED bar
NoLeds ==
    /\ levels = <<>>
    /\ leds = <<>>
    /\ strip = <<>>
    /\ brightness = 0
    /\ ledlog = NoRender

\* (tvoc, eco2) pairs delivered to a build with the bar: just below and at
\* the first threshold of its table, 75, and the top of uint16_t, which is
\* above every threshold
LedSamples(table) ==
    {<<v, 400>> : v \in {table[1].level - 1, table[1].level, 75, U16 - 1}}

\* ------------------------------------------------------------ initial states
\* float tempC, humidity before the first read
NoAmbient == [tempC |-> 0, humidity |-> 0]
\* the compensation registers after the sensor's reset: 25 degrees, 50 %
DefaultEnv == [humidity |-> 5000, tempC |-> 2500]
\* ... and after setEnvironmentalData(humidity, tempC)
EnvData(humidity, tempC) == [humidity |-> humidity, tempC |-> tempC]

FreshDone == [polled |-> FALSE, persisted |-> FALSE, published |-> FALSE]
ZeroNv == [baseline |-> 0, magic |-> 0]

\* the RAM of a boot: statics and globals zero, the clock at zero
Ram ==
    /\ pc = "boot"
    /\ millis = <<0, 0>>
    /\ uptime = [sec |-> 0, ms |-> 0]
    /\ second = 0
    /\ second_log = 0
    /\ second_baseline = 0
    /\ second_env = 0
    /\ fired = [log |-> 0, baseline |-> 0, env |-> 0]
    /\ tvoc_avg = EmptyAvg
    /\ eco2_avg = EmptyAvg
    /\ samples = <<>>
    /\ nvdata = ZeroNv
    /\ restored = <<>>
    /\ wak = 0
    /\ ambient = NoAmbient
    /\ iter = <<>>
    /\ wifi = FALSE
    /\ connected = FALSE
    /\ sent = <<>>
    /\ done = FreshDone

\* power-on: flash holds a stale or a valid record, the broker knows nothing
Init ==
    /\ Ram
    /\ ticks = 0
    /\ eeprom \in [baseline : {StaleBaseline}, magic : StaleMagic \cup {NVDATA_MAGIC}]
    /\ ccs_baseline \in BaselineValues
    /\ ccs_env = DefaultEnv
    /\ broker = [status |-> "none", will |-> NoWill]
    /\ NoLeds


\* millis() three seconds before it wraps: 2^32 - 3000
LateMillis == <<65535, 62536>>
\* ... which is this uptime
LateUptime == [sec |-> 4294964, ms |-> 296]
\* the seconds at which the tasks fired last, then
LateReport == 4294960
LateSave == 4294000

\* a boot that has run for 49.7 days, at the top of loop(): the report and
\* the compensation fired 4 s ago, the baseline was saved 964 s ago
InitWrap ==
    /\ pc = "poll"
    /\ millis = LateMillis
    /\ uptime = LateUptime
    /\ ticks = 0
    /\ second = Seconds(LateMillis)
    /\ second_log = LateReport
    /\ second_env = LateReport
    /\ second_baseline = LateSave
    /\ fired = [log |-> LateReport, baseline |-> LateSave, env |-> LateReport]
    /\ tvoc_avg = EmptyAvg
    /\ eco2_avg = EmptyAvg
    /\ samples = <<>>
    /\ \E b \in BaselineValues :
          /\ nvdata = [baseline |-> b, magic |-> NVDATA_MAGIC]
          /\ eeprom = nvdata
          /\ ccs_baseline = b
    /\ restored = <<>>
    /\ wak = 0
    /\ \E tempC \in TempValues, humidity \in HumValues :
          /\ ambient = [tempC |-> tempC, humidity |-> humidity]
          /\ ccs_env = EnvData(humidity, tempC)
    /\ iter = <<>>
    /\ wifi = TRUE
    /\ connected \in BOOLEAN
    /\ broker = IF connected
                THEN BrokerConnected([status |-> "offline", will |-> NoWill],
                                     statustopic, "offline", TRUE, TRUE)
                ELSE [status |-> "offline", will |-> NoWill]
    /\ sent = <<>>
    /\ done = [polled |-> TRUE, persisted |-> TRUE, published |-> TRUE]
    /\ NoLeds

\* ------------------------------------------------------------ setup()
\* an entry of iter: the step, and the level of the wake line it ran at
Did(step, level) == [step |-> step, wak |-> level]

LoopPcs == {"poll", "clock", "baseline", "env", "env_read", "env_comp",
            "env_temp", "env_hum", "log", "log_eco2", "mqttloop", "watchdog"}

\* setup(): pins, bme280.beginI2C(), ccs811.begin(); either failure halts
SetupSensors ==
    /\ pc = "boot"
    /\ \E bmeOk \in BOOLEAN, ccsOk \in BOOLEAN, factory \in BaselineValues :
          /\ wak' = IF bmeOk THEN 0 ELSE 1
          /\ pc' = IF bmeOk /\ ccsOk THEN "restore" ELSE "halt"
          \* ccs811.begin() resets the sensor
          /\ ccs_baseline' = IF bmeOk THEN factory ELSE ccs_baseline
          /\ ccs_env' = IF bmeOk THEN DefaultEnv ELSE ccs_env
    /\ UNCHANGED <<millis, uptime, ticks, second, second_log, second_baseline,
                   second_env, fired, tvoc_avg, eco2_avg, samples, nvdata, eeprom,
                   restored, ambient, iter, wifi, connected, broker, sent, done,
                   ledvars>>

\* (a restore that does not look at the magic)
SetupRestoreUnchecked ==
    /\ pc = "restore"
    /\ nvdata' = eeprom
    /\ restored' = Append(restored, eeprom.baseline)
    /\ ccs_baseline' = eeprom.baseline
    /\ pc' = "wifi"
    /\ UNCHANGED <<millis, uptime, ticks, second, second_log,
                   second_baseline, second_env, fired, tvoc_avg, eco2_avg,
                   samples, eeprom, wak, ambient, ccs_env, iter, wifi,
                   connected, broker, sent, done, ledvars>>

\* (a restore that sets the baseline twice)
SetupRestoreTwice ==
    /\ pc = "restore"
    /\ nvdata' = eeprom
    /\ IF eeprom.magic = NVDATA_MAGIC
       THEN /\ restored' = <<eeprom.baseline, eeprom.baseline>>
            /\ ccs_baseline' = eeprom.baseline
       ELSE UNCHANGED <<restored, ccs_baseline>>
    /\ pc' = "wifi"
    /\ UNCHANGED <<millis, uptime, ticks, second, second_log,
                   second_baseline, second_env, fired, tvoc_avg, eco2_avg,
                   samples, eeprom, wak, ambient, ccs_env, iter, wifi,
                   connected, broker, sent, done, ledvars>>

\* setup(): EEPROM.get(0, nvdata); if (nvdata.magic == NVDATA_MAGIC) setBaseline
SetupRestore ==
    /\ pc = "restore"
    /\ nvdata' = eeprom
    /\ IF eeprom.magic = NVDATA_MAGIC
       THEN /\ restored' = Append(restored, eeprom.baseline)
            /\ ccs_baseline' = eeprom.baseline
       ELSE UNCHANGED <<restored, ccs_baseline>>
    /\ pc' = "wifi"
    /\ UNCHANGED <<millis, uptime, ticks, second, second_log,
                   second_baseline, second_env, fired, tvoc_avg, eco2_avg,
                   samples, eeprom, wak, ambient, ccs_env, iter, wifi,
                   connected, broker, sent, done, ledvars>>

\* setup(): wifiManager.autoConnect() returns associated or timed out
SetupWifi ==
    /\ pc = "wifi"
    /\ wifi' \in BOOLEAN
    /\ pc' = "poll"
    /\ UNCHANGED <<millis, uptime, ticks, second, second_log,
                   second_baseline, second_env, fired, tvoc_avg, eco2_avg,
                   samples, nvdata, eeprom, ccs_baseline, restored, wak,
                   ambient, ccs_env, iter, connected, broker, sent, done,
                   ledvars>>

\* ------------------------------------------------------------ loop()
\* if (ccs811.dataAvailable()) { read, accumulate TVOC and eCO2 }
Poll ==
    /\ pc = "poll"
    /\ \E avail \in BOOLEAN :
          IF avail
          THEN /\ Len(samples) < MaxSamples
               /\ \E s \in Samples :
                     /\ tvoc_avg' = Accumulate(tvoc_avg, s[1])
                     /\ eco2_avg' = Accumulate(eco2_avg, s[2])
                     /\ samples' = Insert(samples, s)
          ELSE UNCHANGED <<tvoc_avg, eco2_avg, samples>>
    /\ iter' = Append(iter, Did("poll", wak))
    /\ sent' = <<>>
    /\ done' = [done EXCEPT !.polled = TRUE]
    /\ pc' = "clock"
    /\ UNCHANGED <<millis, uptime, ticks, second, second_log,
                   second_baseline, second_env, fired, nvdata, eeprom,
                   ccs_baseline, restored, wak, ambient, ccs_env, wifi,
                   connected, broker, ledvars>>

\* unsigned long second = millis() / 1000
ReadClock ==
    /\ pc = "clock"
    /\ \E d \in Deltas :
          /\ d > 0 => ticks < MaxTicks
          /\ ticks' = IF d > 0 THEN ticks + 1 ELSE ticks
          /\ millis' = MillisAdd(millis, d)
          /\ uptime' = UptimeAdd(uptime, d)
          /\ second' = Seconds(MillisAdd(millis, d))
    /\ pc' = "baseline"
    /\ UNCHANGED <<second_log, second_baseline, second_env, fired, tvoc_avg,
                   eco2_avg, samples, nvdata, eeprom, ccs_baseline, restored,
                   wak, ambient, ccs_env, iter, wifi, connected, broker,
                   sent, done, ledvars>>

\* (a save without EEPROM.commit())
SaveBaselineNoCommit ==
    /\ pc = "baseline"
    /\ IF Elapsed(second, second_baseline, BASELINE_PERIOD_SEC)
       THEN /\ second_baseline' = second
            /\ fired' = [fired EXCEPT !.baseline = uptime.sec]
            /\ ccs_baseline' \in BaselineValues
            /\ nvdata' = [baseline |-> ccs_baseline', magic |-> NVDATA_MAGIC]
            /\ eeprom' = eeprom
            /\ done' = [done EXCEPT !.persisted = TRUE]
            /\ iter' = Append(iter, Did("persist", wak))
       ELSE UNCHANGED <<second_baseline, fired, ccs_baseline, nvdata, eeprom,
                        done, iter>>
    /\ pc' = "env"
    /\ UNCHANGED <<millis, uptime, ticks, second, second_log, second_env,
                   tvoc_avg, eco2_avg, samples, restored, wak, ambient,
                   ccs_env, wifi, connected, broker, sent, ledvars>>

\* save CCS811 baseline every BASELINE_PERIOD_SEC
SaveBaseline ==
    /\ pc = "baseline"
    /\ IF Elapsed(second, second_baseline, BASELINE_PERIOD_SEC)
       THEN /\ second_baseline' = second
            /\ fired' = [fired EXCEPT !.baseline = uptime.sec]
            \* the register holds whatever the sensor's algorithm has reached
            /\ ccs_baseline' \in BaselineValues
            \* nvdata.baseline = ccs811.getBaseline(); nvdata.magic = NVDATA_MAGIC
            /\ nvdata' = [baseline |-> ccs_baseline', magic |-> NVDATA_MAGIC]
            \* EEPROM.put(0, nvdata); EEPROM.commit()
            /\ eeprom' = nvdata'
            /\ done' = [done EXCEPT !.persisted = TRUE]
            /\ iter' = Append(iter, Did("persist", wak))
       ELSE UNCHANGED <<second_baseline, fired, ccs_baseline, nvdata, eeprom,
                        done, iter>>
    /\ pc' = "env"
    /\ UNCHANGED <<millis, uptime, ticks, second, second_log, second_env,
                   tvoc_avg, eco2_avg, samples, restored, wak, ambient,
                   ccs_env, wifi, connected, broker, sent, ledvars>>

\* (a compensation task that leaves the sensor awake during the ambient read)
UpdateEnvAwake ==
    /\ pc = "env"
    /\ IF Elapsed(second, second_env, ENV_PERIOD_SEC)
       THEN /\ second_env' = second
            /\ fired' = [fired EXCEPT !.env = uptime.sec]
            /\ wak' = wak
            /\ iter' = Append(iter, Did("wak", wak))
            /\ pc' = "env_read"
       ELSE /\ pc' = "log"
            /\ UNCHANGED <<second_env, fired, wak, iter>>
    /\ sent' = <<>>
    /\ UNCHANGED <<millis, uptime, ticks, second, second_log, second_baseline,
                   tvoc_avg, eco2_avg, samples, nvdata, eeprom, ccs_baseline,
                   restored, ambient, ccs_env, wifi, connected, broker, done,
                   ledvars>>

\* (a compensation task that also restarts the report period)
UpdateEnvTouchesLog ==
    /\ pc = "env"
    /\ IF Elapsed(second, second_env, ENV_PERIOD_SEC)
       THEN /\ second_env' = second
            /\ second_log' = second
            /\ fired' = [fired EXCEPT !.env = uptime.sec]
            /\ wak' = 1
            /\ iter' = Append(iter, Did("wak", 1))
            /\ pc' = "env_read"
       ELSE /\ pc' = "log"
            /\ UNCHANGED <<second_env, second_log, fired, wak, iter>>
    /\ sent' = <<>>
    /\ UNCHANGED <<millis, uptime, ticks, second, second_baseline,
                   tvoc_avg, eco2_avg, samples, nvdata, eeprom, ccs_baseline,
                   restored, ambient, ccs_env, wifi, connected, broker, done,
                   ledvars>>

\* update environment data every ENV_PERIOD_SEC:
\*   second_env = second; digitalWrite(PIN_CCS811_WAK, 1)
UpdateEnv ==
    /\ pc = "env"
    /\ IF Elapsed(second, second_env, ENV_PERIOD_SEC)
       THEN /\ second_env' = second
            /\ fired' = [fired EXCEPT !.env = uptime.sec]
            \* disable CCS811 WAKE
            /\ wak' = 1
            /\ iter' = Append(iter, Did("wak", 1))
            /\ pc' = "env_read"
       ELSE /\ pc' = "log"
            /\ UNCHANGED <<second_env, fired, wak, iter>>
    /\ sent' = <<>>
    /\ UNCHANGED <<millis, uptime, ticks, second, second_log, second_baseline,
                   tvoc_avg, eco2_avg, samples, nvdata, eeprom, ccs_baseline,
                   restored, ambient, ccs_env, wifi, connected, broker, done,
                   ledvars>>

\* (an ambient read that does not wake the sensor afterwards)
ReadAmbientNoWake ==
    /\ pc = "env_read"
    /\ \E tempC \in TempValues, humidity \in HumValues :
          ambient' = [tempC |-> tempC, humidity |-> humidity]
    /\ wak' = wak
    /\ iter' = Append(iter, Did("ambient", wak))
    /\ pc' = "env_comp"
    /\ UNCHANGED <<millis, uptime, ticks, second, second_log, second_baseline,
                   second_env, fired, tvoc_avg, eco2_avg, samples, nvdata,
                   eeprom, ccs_baseline, restored, ccs_env, wifi, connected,
                   broker, sent, done, ledvars>>

\* tempC = bme280.readTempC(); humidity = bme280.readFloatHumidity();
\* digitalWrite(PIN_CCS811_WAK, 0)
ReadAmbient ==
    /\ pc = "env_read"
    /\ \E tempC \in TempValues, humidity \in HumValues :
          ambient' = [tempC |-> tempC, humidity |-> humidity]
    \* enable CCS811 WAKE
    /\ wak' = 0
    /\ iter' = iter \o <<Did("ambient", wak), Did("wak", 0)>>
    /\ pc' = "env_comp"
    /\ UNCHANGED <<millis, uptime, ticks, second, second_log, second_baseline,
                   second_env, fired, tvoc_avg, eco2_avg, samples, nvdata,
                   eeprom, ccs_baseline, restored, ccs_env, wifi, connected,
                   broker, sent, done, ledvars>>

\* ccs811.setEnvironmentalData(humidity, tempC)
Compensate ==
    /\ pc = "env_comp"
    /\ ccs_env' = EnvData(ambient.humidity, ambient.tempC)
    /\ iter' = Append(iter, Did("compensate", wak))
    /\ pc' = "env_temp"
    /\ UNCHANGED <<millis, uptime, ticks, second, second_log, second_baseline,
                   second_env, fired, tvoc_avg, eco2_avg, samples, nvdata,
                   eeprom, ccs_baseline, restored, wak, ambient, wifi,
                   connected, broker, sent, done, ledvars>>

\* log to MQTT: the temperature
UpdateEnvTemperature ==
    /\ pc = "env_temp"
    /\ \E in \in SendInputs :
          SetClient(mqtt_send(NoCalls(Client), "bme280/temperature",
                              Format("%.2f", ambient.tempC), TRUE, in, wifi))
    /\ iter' = Append(iter, Did("temperature", wak))
    /\ done' = [done EXCEPT !.published = TRUE]
    /\ pc' = "env_hum"
    /\ UNCHANGED <<millis, uptime, ticks, second, second_log, second_baseline,
                   second_env, fired, tvoc_avg, eco2_avg, samples, nvdata,
                   eeprom, ccs_baseline, restored, wak, ambient, ccs_env, wifi,
                   ledvars>>

\* ... and the humidity
UpdateEnvHumidity ==
    /\ pc = "env_hum"
    /\ \E in \in SendInputs :
          SetClient(mqtt_send(NoCalls(Client), "bme280/humidity",
                              Format("%.2f", ambient.humidity), TRUE, in, wifi))
    /\ iter' = Append(iter, Did("humidity", wak))
    /\ pc' = "log"
    /\ UNCHANGED <<millis, uptime, ticks, second, second_log, second_baseline,
                   second_env, fired, tvoc_avg, eco2_avg, samples, nvdata,
                   eeprom, ccs_baseline, restored, wak, ambient, ccs_env, wifi,
                   done, ledvars>>

\* (a report without the count check: an empty averager reports 0)
ReportAlways(c, avg, topic, fmt, in, assoc) ==
    mqtt_send(c, topic,
              Format(fmt, IF avg.count > 0 THEN Average(avg) ELSE 0),
              TRUE, in, assoc)

\* one metric of the report: if (avg.count > 0) { mean, send }
Report(c, avg, topic, fmt, in, assoc) ==
    IF avg.count > 0
    THEN mqtt_send(c, topic, Format(fmt, Average(avg)), TRUE, in, assoc)
    ELSE c

\* (an averager that is never reset)
DrainNever(avg) == avg

\* ... and avg.total = 0; avg.count = 0
Drain(avg) == IF avg.count > 0 THEN EmptyAvg ELSE avg

\* (a report that moves its timestamp on every iteration, due or not)
LogAveragesRestamp ==
    /\ pc = "log"
    /\ second_log' = second
    /\ IF Elapsed(second, second_log, LOG_PERIOD_SEC)
       THEN /\ fired' = [fired EXCEPT !.log = uptime.sec]
            /\ \E in \in SendInputs :
                  SetClient(Report(NoCalls(Client), tvoc_avg, "ccs811/tvoc",
                                   "%u ppb", in, wifi))
            /\ tvoc_avg' = Drain(tvoc_avg)
            /\ done' = [done EXCEPT !.published = @ \/ tvoc_avg.count > 0]
            /\ iter' = IF tvoc_avg.count > 0
                       THEN iter \o <<Did("report", wak), Did("tvoc", wak)>>
                       ELSE Append(iter, Did("report", wak))
            /\ pc' = "log_eco2"
       ELSE /\ sent' = <<>>
            /\ pc' = "mqttloop"
            /\ UNCHANGED <<fired, connected, broker, tvoc_avg, done, iter>>
    /\ UNCHANGED <<millis, uptime, ticks, second, second_baseline,
                   second_env, eco2_avg, samples, nvdata, eeprom,
                   ccs_baseline, restored, wak, ambient, ccs_env, wifi,
                   ledvars>>

\* log TVOC and eCO2 over MQTT every LOG_PERIOD_SEC: the TVOC average
LogAverages ==
    /\ pc = "log"
    /\ IF Elapsed(second, second_log, LOG_PERIOD_SEC)
       THEN /\ second_log' = second
            /\ fired' = [fired EXCEPT !.log = uptime.sec]
            /\ \E in \in SendInputs :
                  SetClient(Report(NoCalls(Client), tvoc_avg, "ccs811/tvoc",
                                   "%u ppb", in, wifi))
            /\ tvoc_avg' = Drain(tvoc_avg)
            /\ done' = [done EXCEPT !.published = @ \/ tvoc_avg.count > 0]
            /\ iter' = IF tvoc_avg.count > 0
                       THEN iter \o <<Did("report", wak), Did("tvoc", wak)>>
                       ELSE Append(iter, Did("report", wak))
            /\ pc' = "log_eco2"
       ELSE /\ sent' = <<>>
            /\ pc' = "mqttloop"
            /\ UNCHANGED <<second_log, fired, connected, broker, tvoc_avg,
                           done, iter>>
    /\ UNCHANGED <<millis, uptime, ticks, second, second_baseline,
                   second_env, eco2_avg, samples, nvdata, eeprom,
                   ccs_baseline, restored, wak, ambient, ccs_env, wifi,
                   ledvars>>

\* ... and the eCO2 average
LogAveragesEco2 ==
    /\ pc = "log_eco2"
    /\ \E in \in SendInputs :
          SetClient(Report(NoCalls(Client), eco2_avg, "ccs811/eco2",
                           "%u ppm", in, wifi))
    /\ eco2_avg' = Drain(eco2_avg)
    /\ samples' = IF eco2_avg.count > 0 THEN <<>> ELSE samples
    /\ done' = [done EXCEPT !.published = @ \/ eco2_avg.count > 0]
    /\ iter' = IF eco2_avg.count > 0 THEN Append(iter, Did("eco2", wak)) ELSE iter
    /\ pc' = "mqttloop"
    /\ UNCHANGED <<millis, uptime, ticks, second, second_log,
                   second_baseline, second_env, fired, tvoc_avg, nvdata,
                   eeprom, ccs_baseline, restored, wak, ambient, ccs_env,
                   wifi, ledvars>>

\* (a keep-alive that is only made while the client is connected)
MqttLoopIfConnected ==
    /\ pc = "mqttloop"
    /\ \E up \in BOOLEAN :
          /\ connected' = (connected /\ up)
          /\ broker' = IF connected /\ ~up THEN BrokerLost(broker) ELSE broker
    /\ iter' = IF connected THEN Append(iter, Did("tick", wak)) ELSE iter
    /\ sent' = <<>>
    /\ pc' = "watchdog"
    /\ UNCHANGED <<millis, uptime, ticks, second, second_log,
                   second_baseline, second_env, fired, tvoc_avg, eco2_avg,
                   samples, nvdata, eeprom, ccs_baseline, restored, wak,
                   ambient, ccs_env, wifi, done, ledvars>>

\* mqttClient.loop(): keep-alive; it may find the connection gone
MqttLoop ==
    /\ pc = "mqttloop"
    /\ \E up \in BOOLEAN :
          /\ connected' = (connected /\ up)
          /\ broker' = IF connected /\ ~up THEN BrokerLost(broker) ELSE broker
    /\ iter' = Append(iter, Did("tick", wak))
    /\ sent' = <<>>
    /\ pc' = "watchdog"
    /\ UNCHANGED <<millis, uptime, ticks, second, second_log,
                   second_baseline, second_env, fired, tvoc_avg, eco2_avg,
                   samples, nvdata, eeprom, ccs_baseline, restored, wak,
                   ambient, ccs_env, wifi, done, ledvars>>

\* ESP.restart(): RAM and clock start over; flash, sensor and broker stay
Restart ==
    /\ pc' = "boot"
    /\ millis' = <<0, 0>>
    /\ uptime' = [sec |-> 0, ms |-> 0]
    /\ second' = 0
    /\ second_log' = 0
    /\ second_baseline' = 0
    /\ second_env' = 0
    /\ fired' = [log |-> 0, baseline |-> 0, env |-> 0]
    /\ tvoc_avg' = EmptyAvg
    /\ eco2_avg' = EmptyAvg
    /\ samples' = <<>>
    /\ nvdata' = ZeroNv
    /\ restored' = <<>>
    /\ wak' = 0
    /\ ambient' = NoAmbient
    /\ iter' = <<>>
    /\ wifi' = FALSE
    /\ connected' = FALSE
    /\ broker' = IF connected THEN BrokerLost(broker) ELSE broker
    /\ sent' = <<>>
    /\ done' = FreshDone
    /\ ticks' = 0
    /\ UNCHANGED <<eeprom, ccs_baseline, ccs_env, ledvars>>

\* (a watchdog that spares a device whose broker connection is up)
WatchdogUnlessConnected ==
    /\ pc = "watchdog"
    /\ IF ~wifi /\ ~connected
       THEN Restart
       ELSE \* loop() returns and is called again
            /\ pc' = "poll"
            /\ iter' = <<>>
            /\ UNCHANGED <<millis, uptime, ticks, second, second_log,
                           second_baseline, second_env, fired, tvoc_avg,
                           eco2_avg, samples, nvdata, eeprom, ccs_baseline,
                           restored, wak, ambient, ccs_env, wifi,
                           connected, broker, sent, done, ledvars>>

\* if (WiFi.status() != WL_CONNECTED) ESP.restart()
Watchdog ==
    /\ pc = "watchdog"
    /\ IF ~wifi
       THEN Restart
       ELSE \* loop() returns and is called again
            /\ pc' = "poll"
            /\ iter' = <<>>
            /\ UNCHANGED <<millis, uptime, ticks, second, second_log,
                           second_baseline, second_env, fired, tvoc_avg,
                           eco2_avg, samples, nvdata, eeprom, ccs_baseline,
                           restored, wak, ambient, ccs_env, wifi,
                           connected, broker, sent, done, ledvars>>

\* environment: the network association is lost between two steps
WifiLost ==
    /\ pc \in LoopPcs
    /\ wifi
    /\ wifi' = FALSE
    /\ UNCHANGED <<pc, millis, uptime, ticks, second, second_log,
                   second_baseline, second_env, fired, tvoc_avg, eco2_avg,
                   samples, nvdata, eeprom, ccs_baseline, restored, wak,
                   ambient, ccs_env, iter, connected, broker, sent, done,
                   ledvars>>

Next ==
    \/ SetupSensors
    \/ SetupRestore
    \/ SetupWifi
    \/ Poll
    \/ ReadClock
    \/ SaveBaseline
    \/ UpdateEnv
    \/ ReadAmbient
    \/ Compensate
    \/ UpdateEnvTemperature
    \/ UpdateEnvHumidity
    \/ LogAverages
    \/ LogAveragesEco2
    \/ MqttLoop
    \/ Watchdog
    \/ WifiLost

Spec == Init /\ [][Next]_vars

\* the same firmware, looked at shortly before millis() wraps
SpecWrap == InitWrap /\ [][Next]_vars

\* ------------------------------------------------------------ running on
\* clock advances followed on a device that is left running
MaxLiveTicks == 3

\* milliseconds passed between two reads of millis(), on a device that is
\* left running: none, six seconds (the report and the compensation come
\* due over two reads), or half an hour (so does the baseline save)
LiveDeltas == {0, 6000, 1801000}

\* unsigned long second = millis() / 1000, with the true time followed
ReadClockLive ==
    /\ pc = "clock"
    /\ \E d \in LiveDeltas :
          /\ d > 0 => ticks < MaxLiveTicks
          /\ ticks' = IF d > 0 THEN ticks + 1 ELSE ticks
          /\ millis' = MillisAdd(millis, d)
          /\ uptime' = UptimeAdd(uptime, d)
          /\ second' = Seconds(MillisAdd(millis, d))
    /\ pc' = "baseline"
    /\ UNCHANGED <<second_log, second_baseline, second_env, fired, tvoc_avg,
                   eco2_avg, samples, nvdata, eeprom, ccs_baseline, restored,
                   wak, ambient, ccs_env, iter, wifi, connected, broker,
                   sent, done, ledvars>>

NextLive ==
    \/ Poll
    \/ ReadClockLive
    \/ SaveBaseline
    \/ UpdateEnv
    \/ ReadAmbient
    \/ Compensate
    \/ UpdateEnvTemperature
    \/ UpdateEnvHumidity
    \/ LogAverages
    \/ LogAveragesEco2
    \/ MqttLoop
    \/ Watchdog

\* the device left running with the network associated, from shortly
\* before millis() wraps: the Arduino core calls loop() again whenever it
\* returns, and every step of it returns
SpecLive ==
    /\ InitWrap
    /\ [][NextLive]_vars
    /\ WF_vars(NextLive)

\* ------------------------------------------------------------ the builds with the LED bar
\* samples accumulated between two reports of a build with the bar
MaxLedSamples == 2

\* sprintf(esp_id, "%08X", ESP.getChipId())
esp_id_led == "00C0FFEE"

\* which of the two builds: the one with eCO2, the dimmed strip and the
\* wake line driven before the sensors are started
IsPart000 == levels = LevelsPart000

\* answers of the client calls inside one mqtt_send(topic, value): there is
\* no status publish
LedSendInputs == {in \in SendInputs : ~in.onlineOk}

\* static void mqtt_send(const char *topic, const char *value)
\*   if (!mqttClient.connected()) { setServer(...); connect(esp_id); }
\*   if (mqttClient.connected()) { publish(topic, value, true); }
\* The connect registers no will, nothing is published on connecting and
\* nothing is returned.
mqtt_send_led(c, topic, value, in, assoc) ==
    LET \* mqttClient.connected() on entry: a connection that was up may have
        \* been closed since
        entry == c.connected /\ in.entryUp
        conOk == in.connectOk /\ assoc
        k == IF ~entry
             THEN [connected |-> conOk,
                   calls |-> <<ConnectCall(esp_id_led, "", FALSE, "", conOk)>>]
             ELSE [connected |-> TRUE, calls |-> <<>>]
        up == k.connected /\ in.stillUp
        \* mqttClient.connected() after the call
        after == up /\ ~in.closed
    IN [connected |-> after,
        broker |-> c.broker,
        sent |-> Append(c.sent,
                    [topic |-> topic, value |-> value, entry |-> entry,
                     assoc |-> assoc, up |-> up,
                     calls |-> IF up
                               THEN Append(k.calls,
                                           PublishCall(topic, value, TRUE, in.pubOk))
                               ELSE k.calls])]

\* power-on of a build with the bar: leds[] is zeroed static storage, the
\* strip is dark and FastLED is at full brightness
InitLed ==
    /\ Ram
    /\ ticks = 0
    /\ eeprom \in [baseline : {StaleBaseline}, magic : StaleMagic \cup {NVDATA_MAGIC}]
    /\ ccs_baseline \in BaselineValues
    /\ ccs_env = DefaultEnv
    /\ broker = [status |-> "none", will |-> NoWill]
    /\ levels \in {LevelsTvocmeter, LevelsPart000}
    /\ leds = AllBlack
    /\ strip = AllBlack
    /\ brightness = FullBrightness
    /\ ledlog = NoRender

\* setup(): bme280.beginI2C(), the wake line, ccs811.begin(); either failure
\* halts in while (1).  part_000 drives the wake line high before it starts
\* the BME280, tvocmeter.ino only drives it low afterwards.
LedSetupSensors ==
    /\ pc = "boot"
    /\ \E bmeOk \in BOOLEAN, ccsOk \in BOOLEAN, factory \in BaselineValues :
          /\ wak' = IF IsPart000 /\ ~bmeOk THEN 1 ELSE 0
          /\ pc' = IF bmeOk /\ ccsOk THEN "restore" ELSE "halt"
          \* ccs811.begin() resets the sensor
          /\ ccs_baseline' = IF bmeOk THEN factory ELSE ccs_baseline
          /\ ccs_env' = IF bmeOk THEN DefaultEnv ELSE ccs_env
    /\ UNCHANGED <<millis, uptime, ticks, second, second_log, second_baseline,
                   second_env, fired, tvoc_avg, eco2_avg, samples, nvdata, eeprom,
                   restored, ambient, iter, wifi, connected, broker, sent, done,
                   ledvars>>

\* setup(), the rest: part_000 sets the brightness and shows the dark array,
\* then both connect to WiFi with wifiManager.autoConnect("ESP-TVOC")
LedSetupWifi ==
    /\ pc = "wifi"
    /\ IF IsPart000
       THEN /\ brightness' = DimBrightness
            /\ strip' = Show(leds, DimBrightness)
       ELSE UNCHANGED <<brightness, strip>>
    /\ wifi' \in BOOLEAN
    /\ pc' = "poll"
    /\ UNCHANGED <<millis, uptime, ticks, second, second_log,
                   second_baseline, second_env, fired, tvoc_avg, eco2_avg,
                   samples, nvdata, eeprom, ccs_baseline, restored, wak,
                   ambient, ccs_env, iter, connected, broker, sent, done,
                   levels, leds, ledlog>>

\* loop(): if (ccs811.dataAvailable()) { read, accumulate, show_on_led(tvoc) }
\* tvocmeter.ino keeps meas_total and meas_num (an int) of the TVOC alone,
\* part_000 a tvoc_avg and an eco2_avg
LedPoll ==
    /\ pc = "poll"
    /\ \E avail \in BOOLEAN :
          IF avail
          THEN /\ Len(samples) < MaxLedSamples
               /\ \E s \in LedSamples(levels) :
                     LET r == show_on_led(levels, leds, s[1], brightness) IN
                     /\ tvoc_avg' = IF IsPart000
                                    THEN Accumulate(tvoc_avg, s[1])
                                    ELSE [total |-> tvoc_avg.total + s[1],
                                          count |-> tvoc_avg.count + 1]
                     /\ eco2_avg' = IF IsPart000
                                    THEN Accumulate(eco2_avg, s[2])
                                    ELSE eco2_avg
                     /\ samples' = Insert(samples, s)
                     \* update LEDs
                     /\ leds' = r.leds
                     /\ strip' = r.strip
                     /\ ledlog' = [tvoc |-> s[1], ops |-> r.ops]
          ELSE UNCHANGED <<tvoc_avg, eco2_avg, samples, leds, strip, ledlog>>
    /\ iter' = Append(iter, Did("poll", wak))
    /\ sent' = <<>>
    /\ done' = [done EXCEPT !.polled = TRUE]
    /\ pc' = "clock"
    /\ UNCHANGED <<millis, uptime, ticks, second, second_log,
                   second_baseline, second_env, fired, nvdata, eeprom,
                   ccs_baseline, restored, wak, ambient, ccs_env, wifi,
                   connected, broker, levels, brightness>>

\* log to MQTT: the temperature
LedEnvTemperature ==
    /\ pc = "env_temp"
    /\ \E in \in LedSendInputs :
          SetClient(mqtt_send_led(NoCalls(Client), "/bme280/temperature",
                                  Format("%.2f", ambient.tempC), in, wifi))
    /\ iter' = Append(iter, Did("temperature", wak))
    /\ done' = [done EXCEPT !.published = TRUE]
    /\ pc' = "env_hum"
    /\ UNCHANGED <<millis, uptime, ticks, second, second_log, second_baseline,
                   second_env, fired, tvoc_avg, eco2_avg, samples, nvdata,
                   eeprom, ccs_baseline, restored, wak, ambient, ccs_env, wifi,
                   ledvars>>

\* ... and the humidity
LedEnvHumidity ==
    /\ pc = "env_hum"
    /\ \E in \in LedSendInputs :
          SetClient(mqtt_send_led(NoCalls(Client), "/bme280/humidity",
                                  Format("%.2f", ambient.humidity), in, wifi))
    /\ iter' = Append(iter, Did("humidity", wak))
    /\ pc' = "log"
    /\ UNCHANGED <<millis, uptime, ticks, second, second_log, second_baseline,
                   second_env, fired, tvoc_avg, eco2_avg, samples, nvdata,
                   eeprom, ccs_baseline, restored, wak, ambient, ccs_env, wifi,
                   done, ledvars>>

\* one metric of the report: if (count > 0) { mean, reset, send "%u" }
LedReport(c, avg, topic, in, assoc) ==
    IF avg.count > 0
    THEN mqtt_send_led(c, topic, Format("%u", Average(avg)), in, assoc)
    ELSE c

\* log TVOC over MQTT every LOG_PERIOD_SEC; part_000 goes on to the eCO2
LedLogAverages ==
    /\ pc = "log"
    /\ IF Elapsed(second, second_log, LOG_PERIOD_SEC)
       THEN /\ second_log' = second
            /\ fired' = [fired EXCEPT !.log = uptime.sec]
            /\ \E in \in LedSendInputs :
                  SetClient(LedReport(NoCalls(Client), tvoc_avg, "/ccs811/tvoc",
                                      in, wifi))
            /\ tvoc_avg' = Drain(tvoc_avg)
            /\ samples' = IF ~IsPart000 /\ tvoc_avg.count > 0 THEN <<>> ELSE samples
            /\ done' = [done EXCEPT !.published = @ \/ tvoc_avg.count > 0]
            /\ iter' = IF tvoc_avg.count > 0
                       THEN iter \o <<Did("report", wak), Did("tvoc", wak)>>
                       ELSE Append(iter, Did("report", wak))
            /\ pc' = IF IsPart000 THEN "log_eco2" ELSE "mqttloop"
       ELSE /\ sent' = <<>>
            /\ pc' = "mqttloop"
            /\ UNCHANGED <<second_log, fired, connected, broker, tvoc_avg,
                           samples, done, iter>>
    /\ UNCHANGED <<millis, uptime, ticks, second, second_baseline,
                   second_env, eco2_avg, nvdata, eeprom, ccs_baseline,
                   restored, wak, ambient, ccs_env, wifi, ledvars>>

\* part_000: ... and the eCO2 average
LedLogAveragesEco2 ==
    /\ pc = "log_eco2"
    /\ \E in \in LedSendInputs :
          SetClient(LedReport(NoCalls(Client), eco2_avg, "/ccs811/eco2",
                              in, wifi))
    /\ eco2_avg' = Drain(eco2_avg)
    /\ samples' = IF eco2_avg.count > 0 THEN <<>> ELSE samples
    /\ done' = [done EXCEPT !.published = @ \/ eco2_avg.count > 0]
    /\ iter' = IF eco2_avg.count > 0 THEN Append(iter, Did("eco2", wak)) ELSE iter
    /\ pc' = "mqttloop"
    /\ UNCHANGED <<millis, uptime, ticks, second, second_log,
                   second_baseline, second_env, fired, tvoc_avg, nvdata,
                   eeprom, ccs_baseline, restored, wak, ambient, ccs_env,
                   wifi, ledvars>>

\* mqttClient.loop(), the last statement: loop() returns and is called again
LedMqttLoop ==
    /\ pc = "mqttloop"
    /\ \E up \in BOOLEAN : connected' = (connected /\ up)
    /\ iter' = <<>>
    /\ sent' = <<>>
    /\ pc' = "poll"
    /\ UNCHANGED <<millis, uptime, ticks, second, second_log,
                   second_baseline, second_env, fired, tvoc_avg, eco2_avg,
                   samples, nvdata, eeprom, ccs_baseline, restored, wak,
                   ambient, ccs_env, wifi, broker, done, ledvars>>

\* the restore, the clock, the baseline save and the compensation are the
\* same code in the three files
NextLed ==
    \/ LedSetupSensors
    \/ SetupRestore
    \/ LedSetupWifi
    \/ LedPoll
    \/ ReadClock
    \/ SaveBaseline
    \/ UpdateEnv
    \/ ReadAmbient
    \/ Compensate
    \/ LedEnvTemperature
    \/ LedEnvHumidity
    \/ LedLogAverages
    \/ LedLogAveragesEco2
    \/ LedMqttLoop

\* a build with the LED bar, from power-on
SpecLed == InitLed /\ [][NextLed]_vars


\* ------------------------------------------------------------ properties
RECURSIVE SumOf(_, _)
\* the sum of component k of the samples
SumOf(seq, k) == IF seq = <<>> THEN 0 ELSE seq[1][k] + SumOf(Tail(seq), k)

\* m is the mean of component k of the samples, rounded half up:
\* m <= sum/n + 1/2 < m + 1
IsRoundHalfUpMean(m, seq, k) ==
    LET n == Len(seq)
        sum == SumOf(seq, k)
    IN /\ 2 * n * m <= (2 * sum) + n
       /\ (2 * sum) + n < 2 * n * (m + 1)

\* the step that reports TVOC / eCO2 is being taken
ReportsTvoc == pc = "log" /\ pc' = "log_eco2"
ReportsEco2 == pc = "log_eco2" /\ pc' = "mqttloop"

\* C1: when the report fires after one or more samples were accumulated, the
\* value handed to mqtt_send is the round-half-up mean of exactly those
\* samples, and right after the report the averager's total and count are 0.
C1_ReportedMean ==
    [][/\ (ReportsTvoc /\ samples # <<>>) =>
            /\ Len(sent') = 1
            /\ sent'[1].topic = "ccs811/tvoc"
            /\ IsRoundHalfUpMean(sent'[1].value.arg, samples, 1)
            /\ tvoc_avg' = EmptyAvg
       /\ (ReportsEco2 /\ samples # <<>>) =>
            /\ Len(sent') = 1
            /\ sent'[1].topic = "ccs811/eco2"
            /\ IsRoundHalfUpMean(sent'[1].value.arg, samples, 2)
            /\ eco2_avg' = EmptyAvg]_vars

\* the report of {100, 101, 102} has just been handed over as 101
W_C1 ==
    /\ pc = "log_eco2"
    /\ samples = <<<<100, 400>>, <<101, 401>>, <<102, 65535>>>>
    /\ Len(sent) = 1
    /\ sent[1].value = Format("%u ppb", 101)
    /\ tvoc_avg = EmptyAvg

\* C2: when the report fires for an averager with count = 0, no mqtt_send is
\* made for that metric (no connect attempt, no publish) and the averager is
\* left as it is, however often that happens.
C2_EmptyDrainIsNoOp ==
    [][/\ (ReportsTvoc /\ tvoc_avg.count = 0) =>
            /\ sent' = <<>>
            /\ tvoc_avg' = tvoc_avg
            /\ connected' = connected
            /\ broker' = broker
       /\ (ReportsEco2 /\ eco2_avg.count = 0) =>
            /\ sent' = <<>>
            /\ eco2_avg' = eco2_avg
            /\ connected' = connected
            /\ broker' = broker]_vars

\* the report has just fired, not for the first time, on empty averagers
W_C2 ==
    /\ pc = "mqttloop"
    /\ fired.log = uptime.sec
    /\ fired.log > LOG_PERIOD_SEC + LOG_PERIOD_SEC
    /\ fired.log < BASELINE_PERIOD_SEC
    /\ samples = <<>>
    /\ sent = <<>>
    /\ tvoc_avg = EmptyAvg
    /\ eco2_avg = EmptyAvg

\* the true time in whole seconds since a task fired last
TrueElapsed(last) == uptime.sec - last

\* C3: at each of the three checks, (second - last) > period as the loop
\* computes it says the same as the true elapsed time compared with the
\* period, also after the clock has wrapped.
C3_ElapsedIsTrue ==
    /\ pc = "baseline" =>
          (Elapsed(second, second_baseline, BASELINE_PERIOD_SEC)
             <=> TrueElapsed(fired.baseline) > BASELINE_PERIOD_SEC)
    /\ pc = "env" =>
          (Elapsed(second, second_env, ENV_PERIOD_SEC)
             <=> TrueElapsed(fired.env) > ENV_PERIOD_SEC)
    /\ pc = "log" =>
          (Elapsed(second, second_log, LOG_PERIOD_SEC)
             <=> TrueElapsed(fired.log) > LOG_PERIOD_SEC)

IsStatusOnline(call) ==
    /\ call.op = "publish"
    /\ call.topic = statustopic
    /\ call.payload = Literal("online")

\* C4: an mqtt_send entered while disconnected makes the connect attempt
\* first; if that fails it returns false and publishes nothing; if it
\* succeeds the next call is the publish of "online" to the status topic, and
\* the telemetry publish, if made, comes after it.
C4_OnlineFirst ==
    \A i \in DOMAIN sent :
        LET r == sent[i] IN
        ~r.entry =>
            /\ Len(r.calls) >= 1
            /\ r.calls[1].op = "connect"
            /\ IF r.calls[1].ok
               THEN /\ Len(r.calls) >= 2
                    /\ IsStatusOnline(r.calls[2])
                    /\ \A j \in DOMAIN r.calls :
                          (r.calls[j].op = "publish" /\ r.calls[j].topic = r.topic)
                              => j = 3
                    /\ r.up <=> Len(r.calls) = 3
               ELSE /\ Len(r.calls) = 1
                    /\ ~r.result
                    /\ ~r.up

\* a new connection: connect, "online", then the telemetry
W_C4 ==
    /\ Len(sent) = 1
    /\ ~sent[1].entry
    /\ Len(sent[1].calls) = 3
    /\ sent[1].calls[1].ok
    /\ IsStatusOnline(sent[1].calls[2])
    /\ sent[1].calls[3].topic = "ccs811/tvoc"

\* C5: an mqtt_send that finds the client not connected at the telemetry
\* publish publishes no telemetry and returns false; one that finds it
\* connected returns the client's answer to the telemetry publish.
C5_ResultIsTelemetryResult ==
    \A i \in DOMAIN sent :
        LET r == sent[i]
            n == Len(r.calls)
        IN IF r.up
           THEN /\ n >= 1
                /\ r.calls[n].topic = r.topic
                /\ r.result = r.calls[n].ok
           ELSE /\ \A j \in DOMAIN r.calls : r.calls[j].topic # r.topic
                /\ ~r.result

OfflineWill ==
    [topic |-> statustopic, payload |-> Literal("offline"), retained |-> TRUE]

\* C6: every connect call carries esp_id as client id and the will "offline"
\* on the status topic; while a connection is up that will is registered at
\* the broker, and while none is up the retained status never reads "online"
\* (a connection that was lost has left it at "offline").
C6_LastWill ==
    /\ \A i \in DOMAIN sent : \A j \in DOMAIN sent[i].calls :
          LET call == sent[i].calls[j] IN
          call.op = "connect" =>
              /\ call.id = esp_id
              /\ call.topic = statustopic
              /\ call.payload = Literal("offline")
              /\ call.retained
    /\ connected => broker.will = OfflineWill
    /\ ~connected => (broker.status # "online" /\ broker.will = NoWill)

\* a restart has cut a connection: the broker has published the will
W_C6 ==
    /\ pc = "boot"
    /\ ~connected
    /\ broker.status = "offline"
    /\ eeprom.magic # NVDATA_MAGIC

\* C7 as stated: no mqtt_send is made once the association is lost
C7_NoSendAfterLoss == \A i \in DOMAIN sent : sent[i].assoc

\* C7: the watchdog check that finds the association lost restarts the
\* device whatever the connection state and the pending data, so the loop
\* never goes on to another iteration; the steps between the loss and that
\* check are the rest of the iteration.
C7_RestartOnLoss ==
    [][/\ (pc = "watchdog" /\ ~wifi) => pc' = "boot"
       /\ (pc \in LoopPcs /\ ~wifi /\ pc' = "poll") => pc = "poll"]_vars

\* the watchdog has restarted a device that had connected and had saved a
\* baseline: the RAM is fresh, the saved record is kept
W_C7 ==
    /\ pc = "boot"
    /\ broker.status = "offline"
    /\ samples = <<>>
    /\ eeprom.magic = NVDATA_MAGIC
    /\ eeprom.baseline # StaleBaseline

\* C8: the restore step calls setBaseline with the record's baseline, once,
\* when the record's magic is NVDATA_MAGIC, and does not call it and leaves
\* the sensor's register alone otherwise; nothing before it calls it.
C8_RestoreExact ==
    [][/\ pc = "restore" =>
            IF eeprom.magic = NVDATA_MAGIC
            THEN /\ restored' = <<eeprom.baseline>>
                 /\ ccs_baseline' = eeprom.baseline
            ELSE /\ restored' = <<>>
                 /\ ccs_baseline' = ccs_baseline
       /\ pc \in {"boot", "restore"} => restored = <<>>]_vars

\* a saved baseline, not the one found at power-on, has been restored
W_C8 ==
    /\ pc = "wifi"
    /\ restored = <<eeprom.baseline>>
    /\ eeprom.baseline # StaleBaseline
    /\ ccs_baseline = eeprom.baseline

\* C9: in a boot that finds a valid record, setBaseline is called exactly
\* once, by the restore step, before anything was polled, persisted or
\* published in that boot; and nothing is polled, persisted or published
\* before loop() runs.
C9_RestoreOnceFirst ==
    [][/\ (restored' # restored /\ pc' # "boot") =>
            /\ pc = "restore"
            /\ restored = <<>>
            /\ Len(restored') = 1
            /\ done = FreshDone
       /\ (pc = "wifi" /\ eeprom.magic = NVDATA_MAGIC) => Len(restored) = 1
       /\ (pc \in LoopPcs /\ ~done.persisted /\ eeprom.magic = NVDATA_MAGIC)
            => Len(restored) = 1
       /\ done' # FreshDone => pc \in LoopPcs]_vars

\* a boot that restored a baseline has polled, persisted and published
W_C9 ==
    /\ pc = "watchdog"
    /\ Len(restored) = 1
    /\ done.polled
    /\ done.persisted
    /\ done.published

\* C10: a firing of the persist task commits the record {the sensor's
\* baseline, NVDATA_MAGIC}; the committed record changes at no other step
\* and, once valid, stays valid, also over a restart; and the restore step
\* of a boot applies the baseline of the record committed last.
C10_PersistSupersedes ==
    [][/\ (pc = "baseline" /\ pc' = "env"
              /\ Elapsed(second, second_baseline, BASELINE_PERIOD_SEC))
            => /\ eeprom' = [baseline |-> ccs_baseline', magic |-> NVDATA_MAGIC]
               /\ nvdata' = eeprom'
               /\ done'.persisted
       /\ eeprom' # eeprom => (pc = "baseline" /\ pc' = "env" /\ done'.persisted)
       /\ eeprom.magic = NVDATA_MAGIC => eeprom'.magic = NVDATA_MAGIC
       /\ (pc = "restore" /\ eeprom.magic = NVDATA_MAGIC)
            => (restored' = <<eeprom.baseline>> /\ eeprom' = eeprom)]_vars

\* a boot that restored one saved baseline has saved another one
W_C10 ==
    /\ done.persisted
    /\ Len(restored) = 1
    /\ restored[1] # StaleBaseline
    /\ eeprom = [baseline |-> StaleBaseline, magic |-> NVDATA_MAGIC]

\* the steps of the compensation task, each with the wake level it runs at
EnvSteps ==
    <<Did("wak", 1), Did("ambient", 1), Did("wak", 0), Did("compensate", 0),
      Did("temperature", 0), Did("humidity", 0)>>

IsEnvStep(e) == \E i \in DOMAIN EnvSteps : EnvSteps[i].step = e.step

IsPrefix(a, b) == Len(a) <= Len(b) /\ a = SubSeq(b, 1, Len(a))

\* the names of the steps of a sequence of entries
Names(seq) == [i \in DOMAIN seq |-> seq[i].step]

AfterEnv == {"log", "log_eco2", "mqttloop", "watchdog"}

\* C11: what a firing of the compensation task does is, in this order: wake
\* line to 1 (asleep), ambient read, wake line to 0 (awake), compensation
\* written, temperature published, humidity published; the ambient read runs
\* at wake level 1 and the compensation write at level 0, and the values
\* written and published are the values read.
C11_CompensationOrder ==
    LET env == SelectSeq(iter, IsEnvStep) IN
    /\ IsPrefix(env, EnvSteps)
    /\ pc \in AfterEnv => env \in {<<>>, EnvSteps}
    /\ pc = "env_read" => (Len(env) = 1 /\ wak = 1)
    /\ pc = "env_comp" => (Len(env) = 3 /\ wak = 0)
    /\ pc = "env_temp" =>
          (Len(env) = 4 /\ ccs_env = EnvData(ambient.humidity, ambient.tempC))
    /\ pc = "env_hum" =>
          /\ Len(env) = 5
          /\ Len(sent) = 1
          /\ sent[1].topic = "bme280/temperature"
          /\ sent[1].value = Format("%.2f", ambient.tempC)
    /\ (pc = "log" /\ env = EnvSteps) =>
          /\ Len(sent) = 1
          /\ sent[1].topic = "bme280/humidity"
          /\ sent[1].value = Format("%.2f", ambient.humidity)

\* the compensation task has just run to its end
W_C11 ==
    /\ pc = "log"
    /\ SelectSeq(iter, IsEnvStep) = EnvSteps
    /\ ambient \in [tempC : TempValues, humidity : HumValues]
    /\ ccs_env = EnvData(ambient.humidity, ambient.tempC)
    /\ Len(sent) = 1
    /\ sent[1].topic = "bme280/humidity"

\* slot i is lit
Lit(i) == leds[i] # CRGB(Black)

\* C12: after show_on_led(value), slot i holds the colour of band i if
\* threshold_i <= value and black otherwise, so the lit slots are a prefix of
\* the bar; with the table 25, 50, 100, 200, ... the value 75 lights the slots
\* of 25 and 50 and no other.
C12_CumulativeBar ==
    ledlog.ops # <<>> =>
        /\ \A i \in 1..NUM_LEDS :
              /\ Lit(i) <=> levels[i].level <= ledlog.tvoc
              /\ Lit(i) => leds[i] = CRGB(levels[i].color)
        /\ \A i \in 1..(NUM_LEDS - 1) : Lit(i + 1) => Lit(i)
        /\ (levels = LevelsTvocmeter /\ ledlog.tvoc = 75) =>
              {i \in 1..NUM_LEDS : Lit(i)} = {1, 2}

\* 75 has been shown on the bar of src/tvocmeter.ino: two green slots
W_C12 ==
    /\ levels = LevelsTvocmeter
    /\ ledlog.tvoc = 75
    /\ ledlog.ops # <<>>
    /\ leds[1] = [r |-> 0, g |-> 255, b |-> 0]
    /\ leds[2] = [r |-> 0, g |-> 255, b |-> 0]
    /\ \A i \in 3..NUM_LEDS : leds[i] = [r |-> 0, g |-> 0, b |-> 0]

\* the writes of one show_on_led call: every slot once, in order, then show
FullRedraw ==
    [i \in 1..(NUM_LEDS + 1) |->
        IF i <= NUM_LEDS THEN [op |-> "set", idx |-> i]
                         ELSE [op |-> "show", idx |-> 0]]

\* C17: a poll that draws the bar writes every slot and then commits once;
\* what the array and the strip hold afterwards is what the same call leaves
\* on a black array, whatever the array held before, the strip being the
\* array as FastLED.show() latches it; and the same call made again changes
\* nothing.
C17_RenderIsFunction ==
    [][(pc = "poll" /\ samples' # samples) =>
          LET fresh == show_on_led(levels, AllBlack, ledlog'.tvoc, brightness)
              again == show_on_led(levels, leds', ledlog'.tvoc, brightness)
          IN /\ ledlog'.ops = FullRedraw
             /\ leds' = fresh.leds
             /\ strip' = fresh.strip
             /\ strip' = Show(leds', brightness)
             /\ again.leds = leds'
             /\ again.strip = strip']_vars

\* since the last report the bar of src/tvocmeter.ino was drawn for 65535,
\* which lights every slot, and then redrawn for 24, below every threshold
W_C17 ==
    /\ levels = LevelsTvocmeter
    /\ samples = <<<<24, 400>>, <<65535, 400>>>>
    /\ ledlog.tvoc = 24
    /\ ledlog.ops = FullRedraw
    /\ leds = AllBlack
    /\ strip = AllBlack

\* the steps that may follow each step of loop()
PcSucc ==
    [p \in LoopPcs |->
        CASE p = "poll" -> {"clock"}
          [] p = "clock" -> {"baseline"}
          [] p = "baseline" -> {"env"}
          [] p = "env" -> {"env_read", "log"}
          [] p = "env_read" -> {"env_comp"}
          [] p = "env_comp" -> {"env_temp"}
          [] p = "env_temp" -> {"env_hum"}
          [] p = "env_hum" -> {"log"}
          [] p = "log" -> {"log_eco2", "mqttloop"}
          [] p = "log_eco2" -> {"mqttloop"}
          [] p = "mqttloop" -> {"watchdog"}
          [] p = "watchdog" -> {"poll", "boot"}]

\* the place of each logged step in the order of one iteration: poll,
\* persist, compensation, its publishes, report, its publishes, tick
Rank(step) ==
    CASE step = "poll" -> 1
      [] step = "persist" -> 2
      [] step \in {"wak", "ambient", "compensate"} -> 3
      [] step = "temperature" -> 4
      [] step = "humidity" -> 5
      [] step = "report" -> 6
      [] step = "tvoc" -> 7
      [] step = "eco2" -> 8
      [] step = "tick" -> 9

Count(seq, step) == Cardinality({i \in DOMAIN seq : seq[i].step = step})

\* what an iteration has done so far is in the order of loop(), nothing but
\* the steps of the compensation done twice
IterOrdered(seq) ==
    \A i \in 1..(Len(seq) - 1) :
        \/ Rank(seq[i].step) < Rank(seq[i + 1].step)
        \/ Rank(seq[i].step) = 3 /\ Rank(seq[i + 1].step) = 3

\* C13: the steps of loop() follow one another in the fixed order poll,
\* clock and persist check, compensation check, report check, tick, watchdog;
\* the effects of the tasks due in one iteration are logged in that order;
\* and when the watchdog check is reached the iteration has polled once and
\* ticked once, the tick last, whatever fired and whatever the publishes
\* answered.
C13_LoopOrder ==
    [][/\ pc \in LoopPcs => (pc' = pc \/ pc' \in PcSucc[pc])
       /\ IterOrdered(iter')
       /\ pc' = "watchdog" =>
             /\ Count(iter', "poll") = 1
             /\ iter'[1].step = "poll"
             /\ Count(iter', "tick") = 1
             /\ iter'[Len(iter')].step = "tick"
       /\ (pc' # "watchdog" /\ iter' # <<>>) => iter'[Len(iter')].step # "tick"
       /\ (pc = "watchdog" /\ pc' = "poll") => iter' = <<>>]_vars

\* an iteration in which all three tasks were due has reached the watchdog
\* check without the client ever having connected
W_C13 ==
    /\ pc = "watchdog"
    /\ Names(iter) = <<"poll", "persist", "wak", "ambient", "wak", "compensate",
                       "temperature", "humidity", "report", "tvoc", "eco2",
                       "tick">>
    /\ ~connected
    /\ broker.status = "none"

\* the averager of component k holds the samples taken since its last drain
HoldsSamples(avg, k) == avg = [total |-> SumOf(samples, k), count |-> Len(samples)]

\* C14: a report step that finds samples in an averager makes one mqtt_send
\* and leaves the averager at zero whatever that call answers (published,
\* rejected, or no connection); from then on the averager holds only the
\* samples taken since, so a value that was not delivered is not sent again;
\* and a call that finds the client disconnected starts with a connect.
C14_DrainedWhateverTheAnswer ==
    [][/\ (ReportsTvoc /\ tvoc_avg.count > 0) =>
            /\ Len(sent') = 1
            /\ tvoc_avg' = EmptyAvg
       /\ (ReportsEco2 /\ eco2_avg.count > 0) =>
            /\ Len(sent') = 1
            /\ eco2_avg' = EmptyAvg
            /\ samples' = <<>>
       /\ HoldsSamples(eco2_avg, 2)
       /\ pc # "log_eco2" => HoldsSamples(tvoc_avg, 1)
       /\ pc = "log_eco2" => tvoc_avg = EmptyAvg
       /\ \A i \in DOMAIN sent' :
             ~sent'[i].entry => sent'[i].calls[1].op = "connect"]_vars

\* the broker has rejected the publish of a TVOC mean; the averager is empty
W_C14 ==
    /\ pc = "log_eco2"
    /\ Len(sent) = 1
    /\ sent[1].topic = "ccs811/tvoc"
    /\ sent[1].up
    /\ ~sent[1].result
    /\ samples # <<>>
    /\ tvoc_avg = EmptyAvg
    /\ eco2_avg.count = Len(samples)

PersistPcs == {"baseline"}
EnvPcs == {"env", "env_read", "env_comp", "env_temp", "env_hum"}
ReportPcs == {"log", "log_eco2"}
\* the steps that call mqtt_send, and the tick
PublisherPcs == {"env_temp", "env_hum", "log", "log_eco2", "mqttloop"}

\* C15: a step of one task leaves the timestamps of the other two as they
\* are; the persist and compensation steps leave both averagers as they are,
\* the compensation and report steps leave the committed record and its RAM
\* copy as they are; and within a boot the client's connection state changes
\* only in a step that calls mqtt_send or mqttClient.loop().
C15_TasksIndependent ==
    [][/\ (pc \in PersistPcs /\ pc' # pc) =>
            /\ second_env' = second_env
            /\ second_log' = second_log
            /\ tvoc_avg' = tvoc_avg
            /\ eco2_avg' = eco2_avg
       /\ (pc \in EnvPcs /\ pc' # pc) =>
            /\ second_baseline' = second_baseline
            /\ second_log' = second_log
            /\ tvoc_avg' = tvoc_avg
            /\ eco2_avg' = eco2_avg
            /\ eeprom' = eeprom
            /\ nvdata' = nvdata
       /\ (pc \in ReportPcs /\ pc' # pc) =>
            /\ second_baseline' = second_baseline
            /\ second_env' = second_env
            /\ eeprom' = eeprom
            /\ nvdata' = nvdata
            /\ ccs_env' = ccs_env
       /\ (connected' # connected /\ pc' # "boot") => pc \in PublisherPcs
       /\ (broker' # broker /\ pc' # "boot") => pc \in PublisherPcs]_vars

\* the three tasks have fired, the persist task at another second than the
\* other two; a record is committed and the client is connected
W_C15 ==
    /\ pc = "watchdog"
    /\ second_baseline > BASELINE_PERIOD_SEC
    /\ second_env > second_baseline
    /\ second_log = second_env
    /\ eeprom.magic = NVDATA_MAGIC
    /\ connected

\* the clock in whole seconds is more than a period past the timestamp
Due(last, period) == second > last + period

\* C16: at its check a task fires exactly when the clock in whole seconds is
\* more than its period past its timestamp, and a firing sets the timestamp
\* to that second; the timestamps are 0 until loop() runs and change at no
\* other step; so a firing comes more than a period of true time after the
\* previous one, or after boot, and no task fires twice in one iteration.
C16_FiresWhenDue ==
    [][/\ (pc = "baseline" /\ pc' # pc) =>
            IF Due(second_baseline, BASELINE_PERIOD_SEC)
            THEN /\ second_baseline' = second
                 /\ iter' = Append(iter, Did("persist", wak))
                 /\ uptime.sec > fired.baseline + BASELINE_PERIOD_SEC
            ELSE /\ second_baseline' = second_baseline
                 /\ iter' = iter
       /\ (pc = "env" /\ pc' # pc) =>
            IF Due(second_env, ENV_PERIOD_SEC)
            THEN /\ second_env' = second
                 /\ pc' = "env_read"
                 /\ uptime.sec > fired.env + ENV_PERIOD_SEC
            ELSE /\ second_env' = second_env
                 /\ pc' = "log"
       /\ (pc = "log" /\ pc' # pc) =>
            IF Due(second_log, LOG_PERIOD_SEC)
            THEN /\ second_log' = second
                 /\ pc' = "log_eco2"
                 /\ uptime.sec > fired.log + LOG_PERIOD_SEC
            ELSE /\ second_log' = second_log
                 /\ pc' = "mqttloop"
       /\ (second_baseline' # second_baseline /\ pc' # "boot") => pc = "baseline"
       /\ (second_env' # second_env /\ pc' # "boot") => pc = "env"
       /\ (second_log' # second_log /\ pc' # "boot") => pc = "log"
       /\ pc \in {"boot", "restore", "wifi"} =>
            (second_baseline = 0 /\ second_env = 0 /\ second_log = 0)
       /\ Count(iter', "persist") <= 1
       /\ Count(iter', "ambient") <= 1
       /\ Count(iter', "report") <= 1]_vars

\* the report fired at second 11; at second 21, exactly one period later,
\* its check has not fired it again
W_C16 ==
    /\ pc = "mqttloop"
    /\ second_log > 0
    /\ second = second_log + LOG_PERIOD_SEC
    /\ second_env = second_log
    /\ Count(iter, "report") = 0
    /\ Count(iter, "ambient") = 0

\* C18: whenever the client is connected after an mqtt_send call, the
\* retained status at the broker reads "online".
C18_ConnectedIsOnline ==
    \A i \in DOMAIN sent :
        (sent[i].up /\ connected) => broker.status = "online"

\* the steps that talk to the CCS811: dataAvailable and the sample read,
\* getBaseline, setEnvironmentalData
GasSensorSteps == {"poll", "persist", "compensate"}

\* C19: every step of loop() that talks to the gas sensor runs with the wake
\* line at 0 (awake), and so does setBaseline in setup(); while loop() runs
\* the line is at 1 only between the write that precedes the ambient read
\* and the write that follows it, so it is at 0 when an iteration starts
\* and when it ends.
C19_AwakeWhenTalking ==
    /\ \A i \in DOMAIN iter :
          /\ iter[i].step \in GasSensorSteps => iter[i].wak = 0
          /\ iter[i].wak = 1 => iter[i].step \in {"wak", "ambient"}
    /\ pc \in LoopPcs \ {"env_read"} => wak = 0
    /\ pc = "env_read" => wak = 1
    /\ pc = "restore" => wak = 0

\* an iteration has polled, read the baseline, read the ambient values with
\* the sensor asleep, and woken it for the compensation write
W_C19 ==
    /\ pc = "env_comp"
    /\ wak = 0
    /\ iter = <<Did("poll", 0), Did("persist", 0), Did("wak", 1),
                Did("ambient", 1), Did("wak", 0)>>
    /\ samples # <<>>

\* this iteration has done the step
HasDone(step) == \E i \in DOMAIN iter : iter[i].step = step

\* more than the period of true time has passed since the task fired last
Overdue(task, period) == TrueElapsed(fired[task]) > period

\* the task has fired at the second the clock was last read
JustFired(task) == fired[task] = uptime.sec

\* the steps of loop() after the three checks
AfterChecks == {"mqttloop", "watchdog"}

====
